---------------------------- MODULE Spec2Model ----------------------------
(***************************************************************************)
(* Model of package zfs (src/zfs.go): a wrapper that drives the external   *)
(* "zfs" binary through a runcmd.Runner and interprets its textual output. *)
(*                                                                         *)
(* Go strings are modelled as sequences of one-character strings, so that  *)
(* strings.Split / Contains / HasSuffix / TrimRight and the "+" of the     *)
(* source are computed, not assumed.  A Go error is Nil (<<>>) or          *)
(* <<text>>; a Go handle is Nil or <<name>>.                               *)
(***************************************************************************)
EXTENDS Integers, Sequences, FiniteSets, TLC

VARIABLES
    op,      \* name of the last completed call of the directory/property API
    args,    \* its arguments
    cmds,    \* the tool invocations it constructed (this.Command), in order
    ret,     \* its first return value
    err,     \* its error return value
    env,     \* what the external tool answered during the call
    store,   \* the tool's property store: target -> value of the one key
    pc,          \* where the replication client is: RecvSnap, then SendSnap's steps
    recvRet,     \* what RecvSnap returned: [handle, err, cmd]
    cwStarted,   \* the consumer process cw is running
    sendIn,      \* SendSnap's arguments <<fs, snapOld, snapNew>>
    sendArgs,    \* the producer invocation SendSnap built
    swOps,       \* operations SendSnap invoked on sendWorker
    cwOps,       \* operations SendSnap invoked on cw and its stdin pipe
    acq,         \* the steps of SendSnap that succeeded so far
    failedAt,    \* the step of SendSnap that failed, or "none"
    prodStarted, \* the producer process is running or has run
    prodClosed,  \* the producer closed its stdout
    prodWrote,   \* every byte the producer wrote to its stdout, in order
    pipe,        \* bytes in the producer's stdout pipe, not yet read
    buf,         \* bytes io.Copy has read and not yet written
    cwIn,        \* every byte written to the consumer's stdin, in order
    cwClosed,    \* the consumer closed its stdin
    sendRet      \* what SendSnap returned: [handle, err]

callVars == <<op, args, cmds, ret, err, env>>

sendVars == <<pc, recvRet, cwStarted, sendIn, sendArgs, swOps, cwOps, acq, failedAt,
              prodStarted, prodClosed, prodWrote, pipe, buf, cwIn, cwClosed, sendRet>>

vars == <<op, args, cmds, ret, err, env, store, pc, recvRet, cwStarted, sendIn,
          sendArgs, swOps, cwOps, acq, failedAt, prodStarted, prodClosed,
          prodWrote, pipe, buf, cwIn, cwClosed, sendRet>>

----------------------------------------------------------------------------
(* Bounds of the model *)

MaxList == 3      \* most entries the tool's pool holds in one listing

MaxN == 5         \* most bytes the producer writes in one transfer

BufSize == 2      \* size of io.Copy's buffer

PipeCap == 3      \* capacity of the producer's stdout pipe

----------------------------------------------------------------------------
(* Go values *)

Nil == <<>>

Err(text) == <<text>>

NL == "\n"

FS == <<"f", "i", "l", "e", "s", "y", "s", "t", "e", "m">>

SNAP == <<"s", "n", "a", "p", "s", "h", "o", "t">>

DATANOE == <<"d", "a", "t", "a", "s", "e", "t", " ", "d", "o", "e", "s", " ", "n", "o", "t", " ", "e", "x", "i", "s", "t">>

----------------------------------------------------------------------------
(* package strings *)

HasSuffix(s, suffix) ==
    /\ Len(s) >= Len(suffix)
    /\ SubSeq(s, Len(s) - Len(suffix) + 1, Len(s)) = suffix

Contains(s, substr) ==
    \E i \in 1..(Len(s) - Len(substr) + 1) :
        SubSeq(s, i, i + Len(substr) - 1) = substr

\* strings.TrimRight(s, cutset) for a one-character cutset: every trailing
\* occurrence of the character is removed.
RECURSIVE TrimRight(_, _)
TrimRight(s, c) ==
    IF Len(s) > 0 /\ s[Len(s)] = c
    THEN TrimRight(SubSeq(s, 1, Len(s) - 1), c)
    ELSE s

\* strings.Split(s, sep) for a one-character separator; Split("", sep) is
\* the one-element slice [""].
RECURSIVE Split(_, _)
Split(s, sep) ==
    IF \E i \in 1..Len(s) : s[i] = sep
    THEN LET i == CHOOSE k \in 1..Len(s) :
                      s[k] = sep /\ \A j \in 1..(k - 1) : s[j] # sep
         IN  <<SubSeq(s, 1, i - 1)>> \o Split(SubSeq(s, i + 1, Len(s)), sep)
    ELSE <<s>>

----------------------------------------------------------------------------
(* The external tool, as far as the calls below observe it *)

ErrExec == <<"e", "x", "e", "c", ":", " ", "n", "o", "t", " ", "f", "o", "u", "n", "d">>

ErrNoDataset == <<"c", "a", "n", "n", "o", "t", " ", "o", "p", "e", "n", " ", "'", "p", "'", ":", " ", "d", "a", "t", "a", "s", "e", "t", " ", "d", "o", "e", "s", " ", "n", "o", "t", " ", "e", "x", "i", "s", "t">>

ErrPerm == <<"p", "e", "r", "m", "i", "s", "s", "i", "o", "n", " ", "d", "e", "n", "i", "e", "d">>

ErrNear == <<"d", "a", "t", "a", "s", "e", "t", " ", "d", "o", "e", "s", " ", "n", "o", "t", " ", "e", "x", "i", "t">>

\* texts a failed Run() may carry
RunErrTexts == {ErrNoDataset, ErrPerm, ErrNear}

FsNames == {<<"p">>, <<"p", "/", "a">>, <<"q">>}

SnapNames == {<<"p", "@", "s", "1">>, <<"p", "@", "s", "2">>, <<"q", "@", "s", "1">>}

Injective(s) == \A i, j \in 1..Len(s) : i # j => s[i] # s[j]

\* what the pool holds, in the order the tool reports it
Worlds ==
    UNION { {w \in [1..n -> FsNames \cup SnapNames] : Injective(w)} : n \in 0..MaxList }

IsSnap(name) == Contains(name, <<"@">>)

RECURSIVE OfKind(_, _)
OfKind(w, kind) ==
    IF w = <<>> THEN <<>>
    ELSE IF (kind = SNAP) = IsSnap(Head(w))
         THEN <<Head(w)>> \o OfKind(Tail(w), kind)
         ELSE OfKind(Tail(w), kind)

\* the tool prints one name per line, each line terminated
RECURSIVE Lines(_)
Lines(names) ==
    IF names = <<>> THEN <<>>
    ELSE Head(names) \o <<NL>> \o Lines(Tail(names))

\* stdout of "zfs list -Ho name -t <kind> ...": the entries of that kind
ListStdout(cmd, w) == Lines(OfKind(w, cmd[5]))

\* outcomes of one tool invocation: CmdError() fails, Run() fails, or Run()
\* succeeds against a pool
Outcomes ==
    {[kind |-> "cmdErr", e |-> Err(ErrExec), w |-> <<>>]}
    \cup {[kind |-> "runErr", e |-> Err(t), w |-> <<>>] : t \in RunErrTexts}
    \cup {[kind |-> "ok", e |-> Nil, w |-> w] : w \in Worlds}

----------------------------------------------------------------------------
(* Zfs.List *)

Star == "*"

Patterns ==
    {<<>>, <<"p">>, <<"p", "/", "a">>, <<"p", Star>>, <<"p", Star, Star>>,
     <<Star>>, <<"p", "/", Star>>, <<"p", "@", "s", "1">>}

Kinds == {FS, SNAP}

\* lines 153-175: the argument vector; the target is dropped when empty
ListArgs(fs, fsType, recursive) ==
    LET base == IF recursive
                THEN <<<<"l", "i", "s", "t">>, <<"-", "H", "o">>, <<"n", "a", "m", "e">>,
                       <<"-", "t">>, fsType, <<"-", "r">>, fs>>
                ELSE <<<<"l", "i", "s", "t">>, <<"-", "H", "o">>, <<"n", "a", "m", "e">>,
                       <<"-", "t">>, fsType, fs>>
    IN  IF fs = <<>> THEN SubSeq(base, 1, Len(base) - 1) ELSE base

\* lines 190-197: split on the line terminator, drop one trailing empty line
OutLines(stdout) ==
    LET out == Split(stdout, NL)
    IN  IF Len(out) > 1 /\ out[Len(out)] = <<>>
        THEN SubSeq(out, 1, Len(out) - 1)
        ELSE out

\* lines 153-197: one listing invocation
ListCmd(fs, fsType, recursive, o) ==
    LET c == ListArgs(fs, fsType, recursive)
    IN  IF o.kind = "cmdErr" THEN [out |-> Nil, err |-> o.e, cmds |-> <<c>>]
        ELSE IF o.kind = "runErr" THEN [out |-> Nil, err |-> o.e, cmds |-> <<c>>]
        ELSE [out |-> OutLines(ListStdout(c, o.w)), err |-> Nil, cmds |-> <<c>>]

RECURSIVE Matches(_, _)
Matches(out, sub) ==
    IF out = <<>> THEN <<>>
    ELSE IF Contains(Head(out), sub)
         THEN <<Head(out)>> \o Matches(Tail(out), sub)
         ELSE Matches(Tail(out), sub)

\* List with the caller's kind passed on to the inner listing
ListCallerKind(fs, fsType, recursive, o) ==
    IF HasSuffix(fs, <<Star>>)
    THEN LET inner == ListCmd(<<>>, fsType, FALSE, o)
         IN  IF inner.err # Nil
             THEN [out |-> Nil, err |-> inner.err, cmds |-> inner.cmds]
             ELSE [out |-> Matches(inner.out, TrimRight(fs, Star)),
                   err |-> Nil, cmds |-> inner.cmds]
    ELSE ListCmd(fs, fsType, recursive, o)

\* lines 136-198
List(fs, fsType, recursive, o) ==
    IF HasSuffix(fs, <<Star>>)
    THEN LET inner == ListCmd(<<>>, FS, FALSE, o)
         IN  IF inner.err # Nil
             THEN [out |-> Nil, err |-> inner.err, cmds |-> inner.cmds]
             ELSE [out |-> Matches(inner.out, TrimRight(fs, Star)),
                   err |-> Nil, cmds |-> inner.cmds]
    ELSE ListCmd(fs, fsType, recursive, o)

\* The API keeps no state between calls (the tool is the source of truth),
\* so a behaviour of the directory service is one call by a fresh client.
CallList ==
    /\ op = "none"
    /\ \E fs \in Patterns, fsType \in Kinds, recursive \in BOOLEAN, o \in Outcomes :
        LET r == List(fs, fsType, recursive, o)
        IN  /\ op' = "List"
            /\ args' = <<fs, fsType, recursive>>
            /\ cmds' = r.cmds
            /\ ret' = r.out
            /\ err' = r.err
            /\ env' = o
            /\ UNCHANGED <<store, sendVars>>

----------------------------------------------------------------------------
(* Zfs.ExistFs, Zfs.ExistSnap *)

\* ExistFs with every listing error read as absence
ExistFsAnyError(fs, o) ==
    LET l == List(fs, FS, FALSE, o)
    IN  IF l.err # Nil
        THEN [ok |-> FALSE, err |-> Nil, cmds |-> l.cmds]
        ELSE [ok |-> TRUE, err |-> Nil, cmds |-> l.cmds]

\* lines 108-116
ExistFs(fs, o) ==
    LET l == List(fs, FS, FALSE, o)
    IN  IF l.err # Nil
        THEN IF Contains(l.err[1], DATANOE)
             THEN [ok |-> FALSE, err |-> Nil, cmds |-> l.cmds]
             ELSE [ok |-> FALSE, err |-> l.err, cmds |-> l.cmds]
        ELSE [ok |-> TRUE, err |-> Nil, cmds |-> l.cmds]

\* lines 122-130
ExistSnap(fs, snap, o) ==
    LET l == List(fs \o <<"@">> \o snap, SNAP, FALSE, o)
    IN  IF l.err # Nil
        THEN IF Contains(l.err[1], DATANOE)
             THEN [ok |-> FALSE, err |-> Nil, cmds |-> l.cmds]
             ELSE [ok |-> FALSE, err |-> l.err, cmds |-> l.cmds]
        ELSE [ok |-> TRUE, err |-> Nil, cmds |-> l.cmds]

Labels == {<<"s", "1">>, <<"s", "2">>, <<"s", Star>>, <<>>}

CallExistFs ==
    /\ op = "none"
    /\ \E fs \in Patterns, o \in Outcomes :
        LET r == ExistFs(fs, o)
        IN  /\ op' = "ExistFs"
            /\ args' = <<fs>>
            /\ cmds' = r.cmds
            /\ ret' = r.ok
            /\ err' = r.err
            /\ env' = o
            /\ UNCHANGED <<store, sendVars>>

CallExistSnap ==
    /\ op = "none"
    /\ \E fs \in FsNames, snap \in Labels, o \in Outcomes :
        LET r == ExistSnap(fs, snap, o)
        IN  /\ op' = "ExistSnap"
            /\ args' = <<fs, snap>>
            /\ cmds' = r.cmds
            /\ ret' = r.ok
            /\ err' = r.err
            /\ env' = o
            /\ UNCHANGED <<store, sendVars>>

----------------------------------------------------------------------------
(* Zfs.Property *)

Targets == {<<"p">>, <<"p", "@", "s", "1">>}

PropValues == {<<"t", "r", "u", "e">>, <<"f", "a", "l", "s", "e">>, <<"-">>}

\* stdout of "zfs get -Ho value <key> <target>": the value on a line of its own
GetStdout(value) == value \o <<NL>>

\* outcomes of one "get" invocation against a target whose value is v
GetOutcomes(v) ==
    {[kind |-> "cmdErr", e |-> Err(ErrExec), v |-> <<>>],
     [kind |-> "runErr", e |-> Err(ErrPerm), v |-> <<>>],
     [kind |-> "ok", e |-> Nil, v |-> v]}

\* lines 241-262
Property(fs, property, g) ==
    LET c == <<<<"g", "e", "t">>, <<"-", "H", "o">>, <<"v", "a", "l", "u", "e">>, property, fs>>
    IN  IF g.kind = "cmdErr" THEN [out |-> <<>>, err |-> g.e, cmds |-> <<c>>]
        ELSE IF g.kind = "runErr" THEN [out |-> <<>>, err |-> g.e, cmds |-> <<c>>]
        ELSE [out |-> GetStdout(g.v), err |-> Nil, cmds |-> <<c>>]

----------------------------------------------------------------------------
(* Zfs.RecentSnap *)

Keys == {<<>>, <<"b", "a", "k">>}

SnapPatterns == {<<"p", "@">>, <<"p">>}

\* lines 320-333: the scan over the split output, from candidate i on;
\* g[i] is the tool's answer to the property read of candidate i
RECURSIVE Scan(_, _, _, _)
Scan(out, i, property, g) ==
    IF i > Len(out) THEN [snap |-> <<>>, err |-> Nil, cmds |-> <<>>]
    ELSE IF property # <<>>
         THEN LET p == Property(out[i], property, g[i])
              IN  IF p.err # Nil
                  THEN [snap |-> <<>>, err |-> Nil, cmds |-> p.cmds]
                  ELSE IF p.out = <<"t", "r", "u", "e">>
                       THEN [snap |-> out[i], err |-> Nil, cmds |-> p.cmds]
                       ELSE LET rest == Scan(out, i + 1, property, g)
                            IN  [rest EXCEPT !.cmds = p.cmds \o @]
         ELSE [snap |-> out[i], err |-> Nil, cmds |-> <<>>]

\* lines 296-334
RecentSnap(snap, property, o, g) ==
    LET c == <<<<"l", "i", "s", "t">>, <<"-", "H", "r", "o">>, <<"n", "a", "m", "e">>,
               <<"-", "t">>, <<"s", "n", "a", "p", "s", "h", "o", "t">>, <<"-", "S">>,
               <<"c", "r", "e", "a", "t", "i", "o", "n">>, snap>>
    IN  IF o.kind = "cmdErr" THEN [snap |-> <<>>, err |-> o.e, cmds |-> <<c>>]
        ELSE IF o.kind = "runErr" THEN [snap |-> <<>>, err |-> o.e, cmds |-> <<c>>]
        ELSE LET r == Scan(Split(ListStdout(c, o.w), NL), 1, property, g)
             IN  [r EXCEPT !.cmds = <<c>> \o @]

\* the candidates of a successful recency listing, as the scan sees them
Candidates(o) == Split(Lines(OfKind(o.w, SNAP)), NL)

AnyGet == UNION {GetOutcomes(v) : v \in PropValues}

CallRecentSnap ==
    /\ op = "none"
    /\ \E snap \in SnapPatterns, property \in Keys, o \in Outcomes :
        \E g \in IF o.kind = "ok" /\ property # <<>>
                 THEN [1..Len(Candidates(o)) -> AnyGet]
                 ELSE {<<>>} :
            LET r == RecentSnap(snap, property, o, g)
            IN  /\ op' = "RecentSnap"
                /\ args' = <<snap, property>>
                /\ cmds' = r.cmds
                /\ ret' = r.snap
                /\ err' = r.err
                /\ env' = [list |-> o, get |-> g]
                /\ UNCHANGED <<store, sendVars>>

----------------------------------------------------------------------------
(* Zfs.SetProperty *)

SetValues == {<<"t", "r", "u", "e">>, <<"f", "a", "l", "s", "e">>}

\* outcomes of one "set" invocation: CmdError() fails, Run() fails, Run()
\* succeeds and the tool stored the value, Run() succeeds and it did not
SetOutcomes ==
    {[kind |-> "cmdErr", e |-> Err(ErrExec)],
     [kind |-> "runErr", e |-> Err(ErrPerm)],
     [kind |-> "applied", e |-> Nil],
     [kind |-> "ignored", e |-> Nil]}

\* lines 268-290
SetProperty(fs, property, value, so, g) ==
    LET c == <<<<"s", "e", "t">>, property \o <<"=">> \o value, fs>>
    IN  IF so.kind = "cmdErr" THEN [err |-> so.e, cmds |-> <<c>>]
        ELSE IF so.kind = "runErr" THEN [err |-> so.e, cmds |-> <<c>>]
        ELSE LET p == Property(fs, property, g)
             IN  IF p.err # Nil THEN [err |-> p.err, cmds |-> <<c>> \o p.cmds]
                 ELSE IF p.out # value
                      THEN [err |-> Err(<<"c", "a", "n", "n", "o", "t", " ", "s", "e", "t", " ", "p", "r", "o", "p", "e", "r", "t", "y", ":", " ">> \o property),
                            cmds |-> <<c>> \o p.cmds]
                      ELSE [err |-> Nil, cmds |-> <<c>> \o p.cmds]

CallSetProperty ==
    \E fs \in Targets, property \in Keys \ {<<>>}, value \in SetValues, so \in SetOutcomes :
        LET st == IF so.kind = "applied" THEN [store EXCEPT ![fs] = value] ELSE store
        IN  \E g \in IF so.kind \in {"applied", "ignored"}
                     THEN GetOutcomes(st[fs])
                     ELSE {[kind |-> "none", e |-> Nil, v |-> <<>>]} :
                LET r == SetProperty(fs, property, value, so, g)
                IN  /\ op' = "SetProperty"
                    /\ args' = <<fs, property, value>>
                    /\ cmds' = r.cmds
                    /\ ret' = <<>>
                    /\ err' = r.err
                    /\ env' = [set |-> so, get |-> g]
                    /\ store' = st
                    /\ UNCHANGED sendVars

CallProperty ==
    \E fs \in Targets, property \in Keys \ {<<>>} :
        \E g \in GetOutcomes(store[fs]) :
            LET r == Property(fs, property, g)
            IN  /\ op' = "Property"
                /\ args' = <<fs, property>>
                /\ cmds' = r.cmds
                /\ ret' = r.out
                /\ err' = r.err
                /\ env' = g
                /\ UNCHANGED <<store, sendVars>>

----------------------------------------------------------------------------
(* Zfs.RecvSnap *)

ErrStart == <<"f", "o", "r", "k">>

ErrPipe == <<"p", "i", "p", "e">>

ErrRead == <<"r", "e", "a", "d">>

ErrClosed == <<"E", "P", "I", "P", "E">>

Handle(name) == <<name>>

\* outcomes of the receiver's construction: CmdError() fails, Start() fails,
\* Start() succeeds
RecvOutcomes ==
    {[kind |-> "cmdErr", e |-> Err(ErrExec)],
     [kind |-> "startErr", e |-> Err(ErrStart)],
     [kind |-> "ok", e |-> Nil]}

\* lines 340-352: the error of c.Start() is assigned and never returned
RecvSnap(fs, snap, o) ==
    LET c == <<<<"r", "e", "c", "v">>, fs \o <<"@">> \o snap>>
    IN  IF o.kind = "cmdErr"
        THEN [handle |-> Nil, err |-> o.e, cmd |-> c, started |-> FALSE]
        ELSE [handle |-> Handle("cw"), err |-> Nil, cmd |-> c,
              started |-> (o.kind = "ok")]

CallRecvSnap ==
    /\ pc = "init"
    /\ \E o \in RecvOutcomes :
        LET r == RecvSnap(<<"q">>, <<"s", "1">>, o)
        IN  /\ recvRet' = [handle |-> r.handle, err |-> r.err, cmd |-> r.cmd]
            /\ cwStarted' = r.started
            /\ env' = o
    /\ pc' = "recvDone"
    /\ UNCHANGED <<op, args, cmds, ret, err, store, sendIn, sendArgs, swOps, cwOps,
                   acq, failedAt, prodStarted, prodClosed, prodWrote, pipe, buf,
                   cwIn, cwClosed, sendRet>>

----------------------------------------------------------------------------
(* Zfs.SendSnap *)

SendFs == {<<"p">>}

SendOld == {<<"s", "1">>, <<>>}

SendNew == {<<"s", "2">>, <<>>}

Byte == {0, 1}

Min(a, b) == IF a < b THEN a ELSE b

\* SendArgs without the full-transfer case
SendArgsAlwaysIncremental(fs, snapOld, snapNew) ==
    <<<<"s", "e", "n", "d">>, <<"-", "i">>, fs \o <<"@">> \o snapOld,
      fs \o <<"@">> \o snapNew>>

\* lines 358-369
SendArgs(fs, snapOld, snapNew) ==
    IF snapNew = <<>>
    THEN <<<<"s", "e", "n", "d">>, fs \o <<"@">> \o snapOld>>
    ELSE <<<<"s", "e", "n", "d">>, <<"-", "i">>, fs \o <<"@">> \o snapOld,
           fs \o <<"@">> \o snapNew>>

\* return of SendSnap
Return(handle, e, step) ==
    /\ sendRet' = [handle |-> handle, err |-> e]
    /\ failedAt' = step
    /\ pc' = "done"

\* SendSnapBegin with cw's stdin pipe acquired before the validation
SendSnapBeginPipeFirst ==
    /\ pc = "recvDone"
    /\ recvRet.handle # Nil
    /\ \E fs \in SendFs, snapOld \in SendOld, snapNew \in SendNew :
        /\ sendIn' = <<fs, snapOld, snapNew>>
        /\ sendArgs' = SendArgs(fs, snapOld, snapNew)
    /\ swOps' = swOps \cup {"CmdError"}
    /\ cwOps' = cwOps \cup {"StdinPipe"}
    /\ \/ /\ acq' = acq \cup {"validated"}
          /\ pc' = "validated"
          /\ UNCHANGED <<sendRet, failedAt>>
       \/ /\ Return(Nil, Err(ErrExec), "validate")
          /\ UNCHANGED acq
    /\ UNCHANGED <<callVars, store, recvRet, cwStarted, prodStarted,
                   prodClosed, prodWrote, pipe, buf, cwIn, cwClosed>>

\* lines 357-374: build the producer invocation and validate it
SendSnapBegin ==
    /\ pc = "recvDone"
    /\ recvRet.handle # Nil
    /\ \E fs \in SendFs, snapOld \in SendOld, snapNew \in SendNew :
        /\ sendIn' = <<fs, snapOld, snapNew>>
        /\ sendArgs' = SendArgs(fs, snapOld, snapNew)
    /\ swOps' = swOps \cup {"CmdError"}
    /\ \/ /\ acq' = acq \cup {"validated"}
          /\ pc' = "validated"
          /\ UNCHANGED <<sendRet, failedAt>>
       \/ /\ Return(Nil, Err(ErrExec), "validate")
          /\ UNCHANGED acq
    /\ UNCHANGED <<callVars, store, recvRet, cwStarted, cwOps, prodStarted,
                   prodClosed, prodWrote, pipe, buf, cwIn, cwClosed>>

\* lines 376-379
SendStdoutPipe ==
    /\ pc = "validated"
    /\ swOps' = swOps \cup {"StdoutPipe"}
    /\ \/ /\ acq' = acq \cup {"stdout"}
          /\ pc' = "stdout"
          /\ UNCHANGED <<sendRet, failedAt>>
       \/ /\ Return(Nil, Err(ErrPipe), "stdout")
          /\ UNCHANGED acq
    /\ UNCHANGED <<callVars, store, recvRet, cwStarted, sendIn, sendArgs, cwOps,
                   prodStarted, prodClosed, prodWrote, pipe, buf, cwIn, cwClosed>>

\* SendStdinPipe with the error of cw.StdinPipe() not checked
SendStdinPipeUnchecked ==
    /\ pc = "stdout"
    /\ cwOps' = cwOps \cup {"StdinPipe"}
    /\ \/ acq' = acq \cup {"stdin"}
       \/ UNCHANGED acq
    /\ pc' = "stdin"
    /\ UNCHANGED <<sendRet, failedAt>>
    /\ UNCHANGED <<callVars, store, recvRet, cwStarted, sendIn, sendArgs, swOps,
                   prodStarted, prodClosed, prodWrote, pipe, buf, cwIn, cwClosed>>

\* lines 381-384
SendStdinPipe ==
    /\ pc = "stdout"
    /\ cwOps' = cwOps \cup {"StdinPipe"}
    /\ \/ /\ acq' = acq \cup {"stdin"}
          /\ pc' = "stdin"
          /\ UNCHANGED <<sendRet, failedAt>>
       \/ /\ Return(Nil, Err(ErrPipe), "stdin")
          /\ UNCHANGED acq
    /\ UNCHANGED <<callVars, store, recvRet, cwStarted, sendIn, sendArgs, swOps,
                   prodStarted, prodClosed, prodWrote, pipe, buf, cwIn, cwClosed>>

\* lines 386-388
SendStart ==
    /\ pc = "stdin"
    /\ swOps' = swOps \cup {"Start"}
    /\ \/ /\ acq' = acq \cup {"started"}
          /\ prodStarted' = TRUE
          /\ pc' = "copy"
          /\ UNCHANGED <<sendRet, failedAt>>
       \/ /\ Return(Nil, Err(ErrStart), "start")
          /\ UNCHANGED <<acq, prodStarted>>
    /\ UNCHANGED <<callVars, store, recvRet, cwStarted, sendIn, sendArgs, cwOps,
                   prodClosed, prodWrote, pipe, buf, cwIn, cwClosed>>

\* CopyRead with the producer's handle dropped when the copy fails
CopyReadNoHandle ==
    /\ pc = "copy"
    /\ buf = <<>>
    /\ \/ /\ pipe # <<>>
          /\ \E n \in 1..Min(BufSize, Len(pipe)) :
                /\ buf' = SubSeq(pipe, 1, n)
                /\ pipe' = SubSeq(pipe, n + 1, Len(pipe))
          /\ UNCHANGED <<pc, sendRet, failedAt>>
       \/ /\ pipe = <<>>
          /\ prodClosed
          /\ Return(Handle("sendWorker"), Nil, "none")
          /\ UNCHANGED <<buf, pipe>>
       \/ /\ Return(Nil, Err(ErrRead), "copy")
          /\ UNCHANGED <<buf, pipe>>
    /\ UNCHANGED <<callVars, store, recvRet, cwStarted, sendIn, sendArgs, swOps,
                   cwOps, acq, prodStarted, prodClosed, prodWrote, cwIn, cwClosed>>

\* line 389, io.Copy: one Read into the buffer.  It takes what the pipe
\* holds, up to the buffer's size; at end-of-stream the copy is over and
\* line 390 returns the producer's handle with no error; a failed Read ends
\* the copy with that error.
CopyRead ==
    /\ pc = "copy"
    /\ buf = <<>>
    /\ \/ /\ pipe # <<>>
          /\ \E n \in 1..Min(BufSize, Len(pipe)) :
                /\ buf' = SubSeq(pipe, 1, n)
                /\ pipe' = SubSeq(pipe, n + 1, Len(pipe))
          /\ UNCHANGED <<pc, sendRet, failedAt>>
       \/ /\ pipe = <<>>
          /\ prodClosed
          /\ Return(Handle("sendWorker"), Nil, "none")
          /\ UNCHANGED <<buf, pipe>>
       \/ /\ Return(Handle("sendWorker"), Err(ErrRead), "copy")
          /\ UNCHANGED <<buf, pipe>>
    /\ UNCHANGED <<callVars, store, recvRet, cwStarted, sendIn, sendArgs, swOps,
                   cwOps, acq, prodStarted, prodClosed, prodWrote, cwIn, cwClosed>>

\* CopyWrite with a short Write that is not noticed
CopyWriteShort ==
    /\ pc = "copy"
    /\ buf # <<>>
    /\ cwOps' = cwOps \cup {"Write"}
    /\ \/ /\ ~cwClosed
          /\ cwIn' = cwIn \o SubSeq(buf, 1, Len(buf) - 1)
          /\ buf' = <<>>
          /\ UNCHANGED <<pc, sendRet, failedAt>>
       \/ /\ cwClosed
          /\ Return(Handle("sendWorker"), Err(ErrClosed), "copy")
          /\ UNCHANGED <<buf, cwIn>>
    /\ UNCHANGED <<callVars, store, recvRet, cwStarted, sendIn, sendArgs, swOps,
                   acq, prodStarted, prodClosed, prodWrote, pipe, cwClosed>>

\* line 389, io.Copy: one Write of the buffer to cw's stdin pipe; a Write to
\* a pipe the consumer closed ends the copy with that error (line 390).
CopyWrite ==
    /\ pc = "copy"
    /\ buf # <<>>
    /\ cwOps' = cwOps \cup {"Write"}
    /\ \/ /\ ~cwClosed
          /\ cwIn' = cwIn \o buf
          /\ buf' = <<>>
          /\ UNCHANGED <<pc, sendRet, failedAt>>
       \/ /\ cwClosed
          /\ Return(Handle("sendWorker"), Err(ErrClosed), "copy")
          /\ UNCHANGED <<buf, cwIn>>
    /\ UNCHANGED <<callVars, store, recvRet, cwStarted, sendIn, sendArgs, swOps,
                   acq, prodStarted, prodClosed, prodWrote, pipe, cwClosed>>

\* the producer process writes one more byte to its stdout
ProducerWrite ==
    /\ prodStarted
    /\ ~prodClosed
    /\ Len(prodWrote) < MaxN
    /\ Len(pipe) < PipeCap
    /\ \E b \in Byte :
        /\ pipe' = Append(pipe, b)
        /\ prodWrote' = Append(prodWrote, b)
    /\ UNCHANGED <<callVars, store, pc, recvRet, cwStarted, sendIn, sendArgs, swOps,
                   cwOps, acq, failedAt, prodStarted, prodClosed, buf, cwIn,
                   cwClosed, sendRet>>

\* the producer process closes its stdout (it has finished, or it died)
ProducerClose ==
    /\ prodStarted
    /\ ~prodClosed
    /\ prodClosed' = TRUE
    /\ UNCHANGED <<callVars, store, pc, recvRet, cwStarted, sendIn, sendArgs, swOps,
                   cwOps, acq, failedAt, prodStarted, prodWrote, pipe, buf, cwIn,
                   cwClosed, sendRet>>

\* the consumer closes its stdin before the stream ends
ConsumerClose ==
    /\ pc = "copy"
    /\ ~cwClosed
    /\ cwClosed' = TRUE
    /\ UNCHANGED <<callVars, store, pc, recvRet, cwStarted, sendIn, sendArgs, swOps,
                   cwOps, acq, failedAt, prodStarted, prodClosed, prodWrote, pipe,
                   buf, cwIn, sendRet>>

----------------------------------------------------------------------------

Init ==
    /\ op = "none"
    /\ args = <<>>
    /\ cmds = <<>>
    /\ ret = <<>>
    /\ err = Nil
    /\ env = <<>>
    /\ store = [t \in Targets |-> <<"-">>]
    /\ pc = "init"
    /\ recvRet = [handle |-> Nil, err |-> Nil, cmd |-> <<>>]
    /\ cwStarted = FALSE
    /\ sendIn = <<>>
    /\ sendArgs = <<>>
    /\ swOps = {}
    /\ cwOps = {}
    /\ acq = {}
    /\ failedAt = "none"
    /\ prodStarted = FALSE
    /\ prodClosed = FALSE
    /\ prodWrote = <<>>
    /\ pipe = <<>>
    /\ buf = <<>>
    /\ cwIn = <<>>
    /\ cwClosed = FALSE
    /\ sendRet = [handle |-> Nil, err |-> Nil]

NextDir ==
    \/ CallList
    \/ CallExistFs
    \/ CallExistSnap
    \/ CallRecentSnap

SpecDir == Init /\ [][NextDir]_vars

NextProp ==
    \/ CallSetProperty
    \/ CallProperty

SpecProp == Init /\ [][NextProp]_vars

NextSend ==
    \/ CallRecvSnap
    \/ SendSnapBegin
    \/ SendStdoutPipe
    \/ SendStdinPipe
    \/ SendStart
    \/ CopyRead
    \/ CopyWrite
    \/ ProducerWrite
    \/ ProducerClose
    \/ ConsumerClose

SpecSend == Init /\ [][NextSend]_vars

----------------------------------------------------------------------------
(* Properties of the directory service *)

\* List("", FS, false) against the pool the tool answered with
FullFsListing == List(<<>>, FS, FALSE, env).out

\* the pattern without its final wildcard marker
StripMarker(p) == SubSeq(p, 1, Len(p) - 1)

\* the pattern without any of its trailing wildcard markers
StripMarkers(p) ==
    LET k == CHOOSE n \in 0..Len(p) :
                 /\ \A i \in (n + 1)..Len(p) : p[i] = Star
                 /\ (n > 0 => p[n] # Star)
    IN  SubSeq(p, 1, k)

WildcardCall ==
    op = "List" /\ HasSuffix(args[1], <<Star>>) /\ env.kind = "ok"

OnlyFsListing ==
    /\ cmds = << <<<<"l", "i", "s", "t">>, <<"-", "H", "o">>, <<"n", "a", "m", "e">>,
                  <<"-", "t">>, <<"f", "i", "l", "e", "s", "y", "s", "t", "e", "m">>>> >>
    /\ \A i \in 1..Len(ret) : ~Contains(ret[i], <<"@">>)

\* C7 as stated: a wildcard List returns the entries of the full filesystem
\* listing that contain the pattern with its wildcard marker stripped, in
\* order, and lists filesystems only.
C7_OneMarkerStripped ==
    WildcardCall =>
        /\ err = Nil
        /\ ret = SelectSeq(FullFsListing, LAMBDA e : Contains(e, StripMarker(args[1])))
        /\ OnlyFsListing

\* C7 amended: a wildcard List returns, for any kind and recursive flag, the
\* entries of the full filesystem listing that contain the pattern with ALL
\* its trailing wildcard markers stripped, in order, and issues a single
\* filesystem-kind non-recursive listing, so it returns no snapshot entry.
C7_AllMarkersStripped ==
    WildcardCall =>
        /\ err = Nil
        /\ ret = SelectSeq(FullFsListing, LAMBDA e : Contains(e, StripMarkers(args[1])))
        /\ OnlyFsListing

C7_Witness ==
    /\ WildcardCall
    /\ args = <<<<"p", "/", Star>>, SNAP, TRUE>>
    /\ \E i \in 1..Len(env.w) : IsSnap(env.w[i])
    /\ Len(FullFsListing) = 2
    /\ ret = <<<<"p", "/", "a">>>>

ExistCall == op \in {"ExistFs", "ExistSnap"}

\* C2: ExistFs/ExistSnap answer (false, nil) when the listing fails with a
\* text containing "dataset does not exist", return any other listing error
\* unchanged, and answer (true, nil) when the listing succeeds; the listing
\* is not recursive.
C2_ExistClassifies ==
    ExistCall =>
        /\ (env.kind # "ok" /\ Contains(env.e[1], DATANOE)) => (ret = FALSE /\ err = Nil)
        /\ (env.kind # "ok" /\ ~Contains(env.e[1], DATANOE)) => (ret = FALSE /\ err = env.e)
        /\ env.kind = "ok" => (ret = TRUE /\ err = Nil)
        /\ \A i \in 1..Len(cmds[1]) : cmds[1][i] # <<"-", "r">>

C2_Witness ==
    /\ op = "ExistSnap"
    /\ env.kind = "runErr"
    /\ env.e = Err(ErrNoDataset)
    /\ ret = FALSE
    /\ err = Nil

\* the value the tool reported for candidate i of a recency scan
ReadsAs(i, value) == env.get[i].kind = "ok" /\ env.get[i].v = value

\* C1: RecentSnap with a non-empty key returns the first candidate in
\* listing order whose property reads as "true", skipping candidates whose
\* read fails, and returns "" with no error when no candidate qualifies.
C1_FirstTrueSkippingErrors ==
    (op = "RecentSnap" /\ args[2] # <<>> /\ env.list.kind = "ok") =>
        LET cand == Candidates(env.list)
            hits == {i \in 1..Len(cand) : ReadsAs(i, <<"t", "r", "u", "e">>)}
        IN  /\ err = Nil
            /\ ret = IF hits = {} THEN <<>>
                     ELSE cand[CHOOSE i \in hits : \A j \in hits : i <= j]

----------------------------------------------------------------------------
(* Properties of the property service *)

\* C3: SetProperty succeeds exactly when the write invocation succeeded and
\* the value the tool then reports for the key equals the requested value.
C3_SetSucceedsIffReadBack ==
    op = "SetProperty" =>
        (err = Nil <=>
            /\ env.set.kind \in {"applied", "ignored"}
            /\ env.get.kind = "ok"
            /\ env.get.v = args[3])

----------------------------------------------------------------------------
(* Properties of the replication pipeline *)

InSendSnap == pc \notin {"init", "recvDone"}

\* C4: the producer is started only after the validation passed and both
\* pipes were acquired; when the validation or a pipe acquisition fails,
\* SendSnap returns that error with no handle, the producer is never
\* started and no byte is copied.
C4_StartAfterPipes ==
    /\ ("Start" \in swOps \/ prodStarted) => {"validated", "stdout", "stdin"} \subseteq acq
    /\ failedAt \in {"validate", "stdout", "stdin"} =>
          /\ pc = "done"
          /\ sendRet.handle = Nil
          /\ sendRet.err = (IF failedAt = "validate" THEN Err(ErrExec) ELSE Err(ErrPipe))
          /\ "Start" \notin swOps
          /\ ~prodStarted
          /\ prodWrote = <<>> /\ buf = <<>> /\ cwIn = <<>>
          /\ "Write" \notin cwOps

C4_Witness ==
    /\ pc = "done"
    /\ failedAt = "stdin"
    /\ acq = {"validated", "stdout"}
    /\ sendRet = [handle |-> Nil, err |-> Err(ErrPipe)]

\* C5: a copy that ran to the producer's end-of-stream without an error has
\* written to the consumer's stdin exactly the bytes the producer wrote, in
\* order; at every moment the bytes are the consumer's, the buffer's or the
\* pipe's, and the buffer never holds more than its size.
C5_CopyExact ==
    /\ Len(buf) <= BufSize
    /\ InSendSnap => cwIn \o buf \o pipe = prodWrote
    /\ (pc = "done" /\ failedAt = "none") => (sendRet.err = Nil /\ cwIn = prodWrote)

C5_Witness ==
    /\ pc = "done"
    /\ failedAt = "none"
    /\ sendRet.err = Nil
    /\ Len(cwIn) = MaxN
    /\ Len(cwIn) > BufSize
    /\ cwIn = prodWrote

\* C6: a failed copy returns its error with the producer's handle, and the
\* producer is neither killed nor waited on; a copy that reached
\* end-of-stream returns the handle with no error; a failed validation,
\* pipe acquisition or start returns an error with no handle.
C6_OutcomePerFailurePoint ==
    /\ swOps \subseteq {"CmdError", "StdoutPipe", "Start"}
    /\ failedAt = "copy" =>
          /\ pc = "done"
          /\ sendRet.handle = Handle("sendWorker")
          /\ sendRet.err \in {Err(ErrRead), Err(ErrClosed)}
          /\ prodStarted
    /\ (pc = "done" /\ failedAt = "none") =>
          sendRet = [handle |-> Handle("sendWorker"), err |-> Nil]
    /\ failedAt \in {"validate", "stdout", "stdin", "start"} =>
          /\ pc = "done"
          /\ sendRet.handle = Nil
          /\ sendRet.err # Nil

C6_Witness ==
    /\ pc = "done"
    /\ failedAt = "copy"
    /\ cwClosed
    /\ cwIn # <<>>
    /\ sendRet = [handle |-> Handle("sendWorker"), err |-> Err(ErrClosed)]

\* C8: SendSnap only acquires cw's stdin pipe and writes to it; it leaves
\* the consumer process as RecvSnap left it, and a failed validation
\* returns before any operation on cw.
C8_ConsumerUntouched ==
    /\ cwOps \subseteq {"StdinPipe", "Write"}
    /\ "validated" \notin acq => cwOps = {}
    /\ InSendSnap => (cwStarted <=> env.kind = "ok")

C8_Witness ==
    /\ pc = "done"
    /\ failedAt = "validate"
    /\ cwOps = {}
    /\ cwStarted

\* C9: the producer invocation is "send <fs>@<old>" when new is empty and
\* "send -i <fs>@<old> <fs>@<new>" otherwise.
C9_ProducerInvocation ==
    InSendSnap =>
        LET fs == sendIn[1]
            old == sendIn[2]
            new == sendIn[3]
        IN  /\ sendArgs[1] = <<"s", "e", "n", "d">>
            /\ new = <<>> =>
                  /\ Len(sendArgs) = 2
                  /\ sendArgs[2] = fs \o <<"@">> \o old
            /\ new # <<>> =>
                  /\ Len(sendArgs) = 4
                  /\ sendArgs[2] = <<"-", "i">>
                  /\ sendArgs[3] = fs \o <<"@">> \o old
                  /\ sendArgs[4] = fs \o <<"@">> \o new

C9_Witness ==
    /\ InSendSnap
    /\ sendIn = <<<<"p">>, <<"s", "1">>, <<>>>>
    /\ sendArgs = <<<<"s", "e", "n", "d">>, <<"p", "@", "s", "1">>>>

\* C10: RecvSnap returns an error whenever the validation or the start of
\* the receiver failed, so a handle returned without error is a started
\* receiver.
C10_RecvReportsFailures ==
    pc # "init" =>
        /\ env.kind # "ok" => recvRet.err # Nil
        /\ (recvRet.err = Nil /\ recvRet.handle # Nil) => cwStarted
=============================================================================
